---- MODULE Spec2Model ----
(***************************************************************************)
(* A model of the dt_invariants package: dimension vectors, cones and      *)
(* their summand / partition enumerators, pairings, quivers, phases and    *)
(* the memoising series classes.                                           *)
(***************************************************************************)
EXTENDS Integers, Sequences, FiniteSets, TLC

VARIABLES
    cone, dv, op, gen, out, pc,     \* a cone, a vector and an enumerator over them
    built, call,                    \* a Pairing or Quiver, and the last call on it
    caches, invoked, returned, nextId, requests,
                                    \* memoising objects and the requests made of them
    setup, stack, status, ret, heap, asked,
                                    \* a SlicedMotive resolving vectors through its series
    argSeries, expObj, logObj, evald,
                                    \* a series, its Exp and Log, and the last evaluation
    stab, hn, semi,                 \* a StabilityCondition, a generator of HN types and
                                    \* the MotiveOfSemistables over it
    phs, phRes,                     \* the Phases made and the result of an operation on them
    charge, chRes,                  \* a CentralCharge and the result of a question put to it
    walk, frames,                   \* an enumeration of a cone taken step by step: the call
                                    \* and the stack of its generator frames
    dtObj, dtOut                    \* an AbelianCategory and a DTInvariants object, and the
                                    \* answer to the last request made of them

coneVars == <<cone, dv, op, gen, out, pc>>

pairVars == <<built, call>>

cacheVars == <<caches, invoked, returned, nextId, requests>>

resolveVars == <<setup, stack, status, ret, heap, asked>>

plethVars == <<argSeries, expObj, logObj, evald>>

hnVars == <<stab, hn, semi>>

phaseVars == <<phs, phRes>>

chargeVars == <<charge, chRes>>

walkVars == <<walk, frames>>

dtVars == <<dtObj, dtOut>>

vars == <<coneVars, pairVars, cacheVars, resolveVars, plethVars, hnVars, phaseVars,
          chargeVars, walkVars, dtVars>>

notCone == <<pairVars, cacheVars, resolveVars, plethVars, hnVars, phaseVars,
    chargeVars, walkVars, dtVars>>

notPairing == <<coneVars, cacheVars, resolveVars, plethVars, hnVars, phaseVars,
    chargeVars, walkVars, dtVars>>

notCache == <<coneVars, pairVars, resolveVars, plethVars, hnVars, phaseVars,
    chargeVars, walkVars, dtVars>>

notResolve == <<coneVars, pairVars, cacheVars, plethVars, hnVars, phaseVars,
    chargeVars, walkVars, dtVars>>

notPleth == <<coneVars, pairVars, cacheVars, resolveVars, hnVars, phaseVars,
    chargeVars, walkVars, dtVars>>

notHN == <<coneVars, pairVars, cacheVars, resolveVars, plethVars, phaseVars,
    chargeVars, walkVars, dtVars>>

notPhase == <<coneVars, pairVars, cacheVars, resolveVars, plethVars, hnVars,
    chargeVars, walkVars, dtVars>>

notCharge == <<coneVars, pairVars, cacheVars, resolveVars, plethVars, hnVars, phaseVars,
    walkVars, dtVars>>

notWalk == <<coneVars, pairVars, cacheVars, resolveVars, plethVars, hnVars, phaseVars,
    chargeVars, dtVars>>

notDT == <<coneVars, pairVars, cacheVars, resolveVars, plethVars, hnVars, phaseVars,
    chargeVars, walkVars>>

(***************************************************************************)
(* Bounds of the model.                                                    *)
(***************************************************************************)
MaxRank == 2

MaxCoord == 2

\* coefficients of a coefficient map range over -1..MaxCoeff
MaxCoeff == 2

\* a coefficient map has at most MaxEntries entries
MaxEntries == 2

\* a behaviour makes at most MaxRequests requests of the memoising objects
MaxRequests == 3

\* the interpreter raises RecursionError when a call would make the stack
\* deeper than MaxDepth frames
MaxDepth == 8

\* motives are compared by their values at L = LValue
LValue == 2

(***************************************************************************)
(* linear_algebra/dimension_vector.py                                      *)
(***************************************************************************)
\* Python's None
None == <<>>

Zero(n) == [i \in 1..n |-> 0]

is_zero(d) == \A i \in 1..Len(d) : d[i] = 0

VAdd(d, e) == [i \in 1..Len(d) |-> d[i] + e[i]]

VNeg(d) == [i \in 1..Len(d) |-> -d[i]]

VSub(d, e) == VAdd(d, VNeg(e))

VMul(d, k) == [i \in 1..Len(d) |-> k * d[i]]

\* DimensionVector.__lt__: the first differing coordinate decides; equal
\* vectors fall off the loop and give None, which is falsy.
VLt(d, e) ==
    \E i \in 1..Len(d) : /\ d[i] < e[i]
                         /\ \A j \in 1..(i - 1) : d[j] = e[j]

SetMin(S) == CHOOSE x \in S : \A y \in S : x <= y

SetMax(S) == CHOOSE x \in S : \A y \in S : x >= y

(***************************************************************************)
(* linear_algebra/standard_cone.py                                         *)
(***************************************************************************)
StandardCone(n) == [kind |-> "StandardCone", rank |-> n, cond |-> "none"]

StandardContains(d) == \A i \in 1..Len(d) : d[i] >= 0

\* What the second loop of _pred_of writes into the coordinates it passes
\* over (those right of the decremented one).
PredFillMut(upper_bound, j) == 0

PredFill(upper_bound, j) == upper_bound[j]

\* StandardCone._pred_of
PredOf(d, upper_bound) ==
    LET n == Len(d)
        over == {i \in 1..n : upper_bound[i] < d[i]}
        pos == {i \in 1..n : d[i] > 0}
    IN  IF over # {}
        THEN LET idx == SetMin(over)
             IN  [j \in 1..n |-> IF j < idx THEN d[j] ELSE upper_bound[j]]
        ELSE IF pos = {}
        THEN None
        ELSE LET idx == SetMax(pos)
             IN  [j \in 1..n |-> IF j < idx THEN d[j]
                                 ELSE IF j = idx THEN d[j] - 1
                                 ELSE PredFill(upper_bound, j)]

RECURSIVE SummandsFrom(_, _)
\* the while-loop of StandardCone._summands, entered with e nonzero
SummandsFrom(e, d) ==
    LET p == PredOf(e, d)
    IN  IF is_zero(p) THEN <<p>> ELSE <<p>> \o SummandsFrom(p, d)

\* StandardCone._summands
StandardSummands(d, below) ==
    IF is_zero(below) THEN <<>> ELSE SummandsFrom(below, d)

(***************************************************************************)
(* linear_algebra/subcone.py                                               *)
(***************************************************************************)
\* The conditions a Subcone is built from: each holds of the zero vector and
\* of a sum whenever it holds of both summands.
Conditions == {"last_zero", "first_le_last", "even_sum"}

RECURSIVE CoordSum(_, _)
CoordSum(d, n) == IF n = 0 THEN 0 ELSE d[n] + CoordSum(d, n - 1)

Condition(c, d) ==
    CASE c = "last_zero" -> d[Len(d)] = 0
      [] c = "first_le_last" -> d[1] <= d[Len(d)]
      [] c = "even_sum" -> CoordSum(d, Len(d)) % 2 = 0
      [] OTHER -> TRUE

Subcone(n, c) == [kind |-> "Subcone", rank |-> n, cond |-> c]

(***************************************************************************)
(* linear_algebra/cone.py                                                  *)
(***************************************************************************)
\* `d in cone`: StandardCone.__contains__ / Subcone.__contains__
Contains(k, d) ==
    IF k.kind = "Subcone"
    THEN StandardContains(d) /\ Condition(k.cond, d)
    ELSE StandardContains(d)

\* cone._summands(d, below): StandardCone._summands / Subcone._summands
ConeSummands(k, d, below) ==
    IF k.kind = "Subcone"
    THEN SelectSeq(StandardSummands(d, below), LAMBDA s : Condition(k.cond, s))
    ELSE StandardSummands(d, below)

\* Cone.summands: the two assertions, then chain([d], _summands(d, below=d))
Summands(k, d) ==
    IF k.rank # Len(d) \/ ~Contains(k, d)
    THEN [exc |-> "AssertionError", items |-> <<>>]
    ELSE [exc |-> "none", items |-> <<d>> \o ConeSummands(k, d, d)]

\* A dict {summand: multiplicity} is the set of its items; {**a, **b} keeps
\* b's value for a key both have.
DictMerge(a, b) == {x \in a : \A y \in b : y[1] # x[1]} \cup b

EntryMut(e, q) == {<<e, 1>>}

\* the dict {e: q} of Cone._partitions
Entry(e, q) == {<<e, q>>}

InnerBelowMut(e, below) == below

\* the bound Cone._partitions passes to its recursive call
InnerBelow(e, below) == e

RECURSIVE PartitionsBelow(_, _, _)
RECURSIVE PartitionsWith(_, _, _, _, _)
RECURSIVE PartitionsOver(_, _, _, _, _)

\* the while-loop of Cone._partitions for the summand e, at multiplicity q
PartitionsWith(k, d, e, q, below) ==
    LET r == VSub(d, VMul(e, q))
    IN  IF ~Contains(k, r)
        THEN <<>>
        ELSE (IF is_zero(r)
              THEN <<Entry(e, q)>>
              ELSE LET sub == PartitionsBelow(k, r, InnerBelow(e, below))
                   IN  [i \in 1..Len(sub) |-> DictMerge(Entry(e, q), sub[i])])
             \o PartitionsWith(k, d, e, q + 1, below)

\* the for-loop of Cone._partitions over the summands ss[i..]
PartitionsOver(k, d, ss, i, below) ==
    IF i > Len(ss)
    THEN <<>>
    ELSE (IF is_zero(ss[i]) THEN <<>> ELSE PartitionsWith(k, d, ss[i], 1, below))
         \o PartitionsOver(k, d, ss, i + 1, below)

\* Cone._partitions
PartitionsBelow(k, d, below) ==
    PartitionsOver(k, d, ConeSummands(k, d, below), 1, below)

\* Cone.partitions: the rank assertion, then chain([{d: 1}], _partitions(d, d))
Partitions(k, d) ==
    IF k.rank # Len(d)
    THEN [exc |-> "AssertionError", items |-> <<>>]
    ELSE [exc |-> "none", items |-> <<{<<d, 1>>}>> \o PartitionsBelow(k, d, d)]

(***************************************************************************)
(* The enumerators as iterators: a call builds the iterator, every next()  *)
(* takes one element, the last next() raises StopIteration.                *)
(***************************************************************************)
Ranks == 1..MaxRank

Box(n) == [1..n -> 0..MaxCoord]

Cones == {StandardCone(n) : n \in Ranks}
             \cup {Subcone(n, c) : n \in Ranks, c \in Conditions}

\* the parts of the state a specification does not use
IdleCone ==
    /\ cone = StandardCone(1)
    /\ dv = <<0>>
    /\ op = "none"
    /\ gen = <<>>
    /\ out = <<>>
    /\ pc = "unused"

IdlePairing ==
    /\ built = [cls |-> "none", exc |-> "none", rank |-> 0, arg |-> {}, given |-> FALSE,
                members |-> <<>>]
    /\ call = [target |-> "none", d |-> <<>>, e |-> <<>>, exc |-> "none", val |-> 0]

IdleCache ==
    /\ caches = [GradedMotive |-> {}, SlicedMotive |-> {}, Slicing |-> {}]
    /\ invoked = <<>>
    /\ returned = {}
    /\ nextId = 0
    /\ requests = 0

IdleResolve ==
    /\ setup = <<>>
    /\ stack = <<>>
    /\ status = "unused"
    /\ ret = [cls |-> "None", id |-> 0]
    /\ heap = <<>>
    /\ asked = 0

IdlePleth ==
    /\ argSeries = <<>>
    /\ expObj = [state |-> "unused", cache |-> {}]
    /\ logObj = [state |-> "unused", of |-> "none"]
    /\ evald = [expr |-> "none", d |-> <<>>, exc |-> "none", val |-> 0]

IdleHN ==
    /\ stab = <<>>
    /\ hn = [fn |-> "none", pc |-> "unused", d |-> <<>>, k |-> <<>>, i |-> 0, exc |-> "none",
             out |-> <<>>]
    /\ semi = [state |-> "unused", d |-> <<>>, exc |-> "none", types |-> <<>>, cache |-> {}]

IdlePhase ==
    /\ phs = <<>>
    /\ phRes = [op |-> "unused"]

IdleCharge ==
    /\ charge = <<>>
    /\ chRes = [op |-> "unused"]

IdleWalk ==
    /\ walk = [fn |-> "unused"]
    /\ frames = <<>>

IdleDT ==
    /\ dtObj = <<>>
    /\ dtOut = [req |-> "unused"]

InitCone ==
    /\ IdleDT
    /\ IdleWalk
    /\ IdleCharge
    /\ IdlePhase
    /\ IdlePairing
    /\ IdleCache
    /\ IdleResolve
    /\ IdlePleth
    /\ IdleHN
    /\ cone \in Cones
    /\ dv \in {d \in Box(cone.rank) : Contains(cone, d)}
    /\ op = "none"
    /\ gen = <<>>
    /\ out = <<>>
    /\ pc = "idle"

CallSummands ==
    /\ pc = "idle"
    /\ LET res == Summands(cone, dv)
       IN  /\ gen' = res.items
           /\ pc' = IF res.exc = "none" THEN "iterating" ELSE res.exc
    /\ op' = "summands"
    /\ UNCHANGED <<cone, dv, out>>
    /\ UNCHANGED notCone

CallPartitions ==
    /\ pc = "idle"
    /\ LET res == Partitions(cone, dv)
       IN  /\ gen' = res.items
           /\ pc' = IF res.exc = "none" THEN "iterating" ELSE res.exc
    /\ op' = "partitions"
    /\ UNCHANGED <<cone, dv, out>>
    /\ UNCHANGED notCone

NextItem ==
    /\ pc = "iterating"
    /\ gen # <<>>
    /\ out' = Append(out, Head(gen))
    /\ gen' = Tail(gen)
    /\ UNCHANGED <<cone, dv, op, pc>>
    /\ UNCHANGED notCone

StopIteration ==
    /\ pc = "iterating"
    /\ gen = <<>>
    /\ pc' = "exhausted"
    /\ UNCHANGED <<cone, dv, op, gen, out>>
    /\ UNCHANGED notCone

NextCone == CallSummands \/ CallPartitions \/ NextItem \/ StopIteration

SpecCone == InitCone /\ [][NextCone]_vars

(***************************************************************************)
(* Claims about the cone enumerators.                                      *)
(***************************************************************************)
Range(s) == {s[i] : i \in 1..Len(s)}

NoRepeats(s) == \A i, j \in 1..Len(s) : i # j => s[i] # s[j]

RECURSIVE DictSum(_, _)
\* the sum of summand * multiplicity over the items of a partition
DictSum(p, n) ==
    IF p = {}
    THEN Zero(n)
    ELSE LET x == CHOOSE y \in p : TRUE
         IN  VAdd(VMul(x[1], x[2]), DictSum(p \ {x}, n))

\* the vectors e with 0 <= e[i] <= d[i] for every coordinate i
Below(d) == {e \in [1..Len(d) -> 0..SetMax({d[i] : i \in 1..Len(d)})] :
                \A i \in 1..Len(d) : e[i] <= d[i]}

RECURSIVE MultisetsSumming(_, _)
\* every multiset over the vectors of S that sums to d, as a dict
MultisetsSumming(d, S) ==
    IF S = {}
    THEN IF is_zero(d) THEN {{}} ELSE {}
    ELSE LET e == CHOOSE x \in S : TRUE
             fits == {q \in 0..CoordSum(d, Len(d)) : StandardContains(VSub(d, VMul(e, q)))}
         IN  UNION {{m \cup (IF q = 0 THEN {} ELSE {<<e, q>>}) :
                        m \in MultisetsSumming(VSub(d, VMul(e, q)), S \ {e})} : q \in fits}

Decompositions(d) == MultisetsSumming(d, Below(d) \ {Zero(Len(d))})

\* C1: every partition emitted by partitions(d), for a member d of a
\* StandardCone or a Subcone, reconstructs d: the sum of summand *
\* multiplicity over its entries is d.
C1_PartitionsReconstruct ==
    (op = "partitions" /\ Contains(cone, dv))
        => \A i \in 1..Len(out) : DictSum(out[i], Len(dv)) = dv

C1_Witness ==
    /\ op = "partitions"
    /\ cone.kind = "Subcone"
    /\ pc = "exhausted"
    /\ Len(out) >= 3
    /\ \E i \in 1..Len(out) : \E x \in out[i] : x[2] >= 2

\* C2: for a StandardCone and a nonzero member d, partitions(d) emits every
\* multiset of nonzero cone vectors that sums to d, each exactly once; for
\* d = (1,2) these are the four partitions of the example.
C2_PartitionsExactlyOnce ==
    (op = "partitions" /\ cone.kind = "StandardCone" /\ ~is_zero(dv))
        => /\ NoRepeats(out)
           /\ pc = "exhausted" => Range(out) = Decompositions(dv)
           /\ (pc = "exhausted" /\ dv = <<1, 2>>)
                 => Range(out) = { {<<(<<1, 2>>), 1>>},
                                   {<<(<<1, 1>>), 1>>, <<(<<0, 1>>), 1>>},
                                   {<<(<<1, 0>>), 1>>, <<(<<0, 2>>), 1>>},
                                   {<<(<<1, 0>>), 1>>, <<(<<0, 1>>), 2>>} }

C2_Witness ==
    /\ op = "partitions"
    /\ cone.kind = "StandardCone"
    /\ dv = <<1, 2>>
    /\ pc = "exhausted"
    /\ Len(out) = 4

\* C3: for a StandardCone and a member d, summands(d) yields exactly the
\* vectors e with 0 <= e[i] <= d[i], each once, beginning with d and ending
\* with the zero vector.
C3_SummandsExact ==
    (op = "summands" /\ cone.kind = "StandardCone" /\ Contains(cone, dv))
        => /\ NoRepeats(out)
           /\ Range(out) \subseteq Below(dv)
           /\ out # <<>> => out[1] = dv
           /\ pc = "exhausted" => /\ Range(out) = Below(dv)
                                  /\ out[Len(out)] = Zero(Len(dv))

C3_Witness ==
    /\ op = "summands"
    /\ cone.kind = "StandardCone"
    /\ pc = "exhausted"
    /\ out = << <<1, 1>>, <<1, 0>>, <<0, 1>>, <<0, 0>> >>

(***************************************************************************)
(* linear_algebra/pairing.py                                               *)
(*                                                                         *)
(* A coefficient map {(i, j): coeff} is the set of its items               *)
(* <<<<i, j>>, coeff>>, with the indices counted from 0 as in the code.    *)
(***************************************************************************)
\* `i in range(rank)`
InRange(i, rank) == i >= 0 /\ i < rank

\* {(i, i): 1 for i in range(rank)}
UnitMatrix(rank) == {<< <<i, i>>, 1 >> : i \in 0..(rank - 1)}

\* dict.get(key, default)
DictGet(m, key, default) ==
    IF \E x \in m : x[1] = key
    THEN (CHOOSE x \in m : x[1] = key)[2]
    ELSE default

RECURSIVE SumItems(_, _, _)
\* sum(d[i] * e[j] * coeff for (i, j), coeff in coeff_matrix.items())
SumItems(m, d, e) ==
    IF m = {}
    THEN 0
    ELSE LET x == CHOOSE y \in m : TRUE
         IN  d[x[1][1] + 1] * e[x[1][2] + 1] * x[2] + SumItems(m \ {x}, d, e)

\* Pairing._validate, for an integer rank and a dict of integers keyed by pairs
PairingValidate(rank, m) ==
    IF rank < 0
    THEN "ValueError"
    ELSE IF \E x \in m : ~InRange(x[1][1], rank) /\ ~InRange(x[1][2], rank)
    THEN "ValueError"
    ELSE "none"

\* Pairing.__init__: `given` tells whether a coeff_matrix was passed at all
PairingNew(rank, given, m) ==
    LET coeff_matrix == IF ~given \/ m = {} THEN UnitMatrix(rank) ELSE m
    IN  [exc |-> PairingValidate(rank, coeff_matrix),
         rank |-> rank,
         coeff_matrix |-> coeff_matrix]

\* Pairing.__call__: an index beyond the vector raises IndexError
PairingCall(p, d, e) ==
    IF Len(d) # p.rank \/ Len(e) # p.rank
    THEN [exc |-> "AssertionError", val |-> 0]
    ELSE IF \E x \in p.coeff_matrix : x[1][1] >= p.rank \/ x[1][2] >= p.rank
    THEN [exc |-> "IndexError", val |-> 0]
    ELSE [exc |-> "none", val |-> SumItems(p.coeff_matrix, d, e)]

(***************************************************************************)
(* examples/quiver.py                                                      *)
(***************************************************************************)
\* Quiver._validate, for an integer num_vertices, a dict of integers keyed
\* by pairs and a string name
QuiverValidate(num_vertices, arrow_matrix) ==
    IF num_vertices < 1
    THEN "ValueError"
    ELSE IF \E x \in arrow_matrix :
               \/ ~InRange(x[1][1], num_vertices) /\ ~InRange(x[1][2], num_vertices)
               \/ x[2] < 0
    THEN "ValueError"
    ELSE "none"

\* the coeff_matrix Quiver.__init__ builds for the Euler pairing
EulerMatrix(num_vertices, arrow_matrix) ==
    LET negated == {<<x[1], -x[2]>> : x \in arrow_matrix}
        diagonal == {<< <<i, i>>, 1 + DictGet(negated, <<i, i>>, 0) >> :
                        i \in 0..(num_vertices - 1)}
        updated == DictMerge(negated, diagonal)
    IN  {x \in updated : x[2] # 0}

\* Quiver.__init__
QuiverNew(num_vertices, arrow_matrix) ==
    LET hom == PairingNew(num_vertices, FALSE, {})
        ext == PairingNew(num_vertices, TRUE, arrow_matrix)
        euler_pairing ==
            PairingNew(num_vertices, TRUE, EulerMatrix(num_vertices, arrow_matrix))
        exc == IF QuiverValidate(num_vertices, arrow_matrix) # "none"
               THEN "ValueError"
               ELSE IF hom.exc # "none" THEN hom.exc
               ELSE IF ext.exc # "none" THEN ext.exc
               ELSE euler_pairing.exc
    IN  [exc |-> exc,
         members |-> [hom |-> hom, ext |-> ext, euler_pairing |-> euler_pairing]]

(***************************************************************************)
(* Pairings and quivers: one object is built and then called.  A call      *)
(* changes nothing of the object, so one call stands for every call.       *)
(***************************************************************************)
\* the items a coefficient map over the lattice of rank n may hold
Items(n) == ((0..n) \X (0..n)) \X ((-1)..MaxCoeff)

RECURSIVE DictsUpTo(_, _)
\* the coefficient maps with at most k entries
DictsUpTo(n, k) ==
    IF k = 0
    THEN {{}}
    ELSE LET smaller == DictsUpTo(n, k - 1)
         IN  smaller \cup {m \cup {x} : m \in smaller,
                                        x \in Items(n)}

Dicts(n) == {m \in DictsUpTo(n, MaxEntries) :
                \A x, y \in m : x[1] = y[1] => x = y}

InitPairing ==
    /\ IdleDT
    /\ IdleWalk
    /\ IdleCharge
    /\ IdleCone
    /\ IdlePhase
    /\ IdlePairing
    /\ IdlePleth
    /\ IdleHN
    /\ IdleCache
    /\ IdleResolve

NewPairing ==
    /\ built.cls = "none"
    /\ \E n \in Ranks, given \in BOOLEAN :
         \E m \in (IF given THEN Dicts(n) ELSE {{}}) :
            LET p == PairingNew(n, given, m)
            IN  built' = [cls |-> "Pairing", exc |-> p.exc, rank |-> n, arg |-> m,
                          given |-> given, members |-> [self |-> p]]
    /\ UNCHANGED call
    /\ UNCHANGED notPairing

NewQuiver ==
    /\ built.cls = "none"
    /\ \E n \in Ranks :
         \E m \in Dicts(n) :
            LET q == QuiverNew(n, m)
            IN  built' = [cls |-> "Quiver", exc |-> q.exc, rank |-> n, arg |-> m,
                          given |-> TRUE, members |-> q.members]
    /\ UNCHANGED call
    /\ UNCHANGED notPairing

CallPairing ==
    /\ built.cls # "none"
    /\ built.exc = "none"
    /\ call.target = "none"
    /\ \E t \in DOMAIN built.members :
         \E d \in Box(built.rank), e \in Box(built.rank) :
            LET r == PairingCall(built.members[t], d, e)
            IN  call' = [target |-> t, d |-> d, e |-> e, exc |-> r.exc, val |-> r.val]
    /\ UNCHANGED built
    /\ UNCHANGED notPairing

NextPairing == NewPairing \/ NewQuiver \/ CallPairing

SpecPairing == InitPairing /\ [][NextPairing]_vars

\* the arguments given to the constructor name only indices of the lattice
IndicesValid ==
    \A x \in built.arg : InRange(x[1][1], built.rank) /\ InRange(x[1][2], built.rank)

\* C9: a Pairing built from a coefficient map M evaluates to the sum over
\* the entries (i,j) of M of M[(i,j)] * d[i] * e[j]; the unit matrix is used
\* only when no coefficient map is given.
C9_PairingIsCoefficientSum ==
    (built.cls = "Pairing" /\ built.given /\ IndicesValid /\ call.target = "self")
        => /\ call.exc = "none"
           /\ call.val = SumItems(built.arg, call.d, call.e)

\* C10: for a Quiver with a valid arrow matrix, euler_pairing(d,e) is the
\* standard scalar product of d and e minus the sum over the arrows (i,j)
\* of arrow_matrix[(i,j)] * d[i] * e[j].
C10_EulerIsHomMinusExt ==
    (/\ built.cls = "Quiver"
     /\ built.exc = "none"
     /\ IndicesValid
     /\ call.target = "euler_pairing")
        => /\ call.exc = "none"
           /\ call.val = SumItems(UnitMatrix(built.rank), call.d, call.e)
                             - SumItems(built.arg, call.d, call.e)

(***************************************************************************)
(* linear_algebra/phase.py: a Phase is the triple (_real, _imag, branch).   *)
(***************************************************************************)
PhaseOf(z, branch) == <<z[1], z[2], branch>>

is_in_upper_half_plane(p) == p[2] > 0 \/ (p[2] = 0 /\ p[1] > 0)

PhaseIntMut(p) == 2 * p[3]

PhaseInt(p) == IF is_in_upper_half_plane(p) THEN 2 * p[3] ELSE 2 * p[3] + 1

PhaseEqMut(p, q) == p = q

PhaseEq(p, q) == PhaseInt(p) = PhaseInt(q) /\ p[1] * q[2] = q[1] * p[2]

\* the hash of a Python int is the int itself, except that -1 hashes to -2
IntHash(n) == IF n = -1 THEN -2 ELSE n

\* the hash of a tuple is determined by the hashes of its elements, in order
TupleHash(t) == [i \in DOMAIN t |-> IntHash(t[i])]

PhaseHash(p) == TupleHash(p)

(***************************************************************************)
(* The dict behind every _cache.  A key is a DimensionVector or a Phase; an *)
(* entry is found when its key has the hash of the key looked up and        *)
(* compares equal to it.  The vectors used here are shorter than a Phase    *)
(* triple, so a vector and a Phase never share a hash.                      *)
(***************************************************************************)
VecKey(d) == [type |-> "DimensionVector", v |-> d]

PhaseKey(p) == [type |-> "Phase", v |-> p]

KeyHash(k) == IF k.type = "Phase" THEN PhaseHash(k.v) ELSE TupleHash(k.v)

KeyEq(a, b) ==
    /\ a.type = b.type
    /\ IF a.type = "Phase" THEN PhaseEq(a.v, b.v) ELSE a.v = b.v

CacheFound(c, k) == {x \in c : KeyHash(x[1]) = KeyHash(k) /\ KeyEq(x[1], k)}

CacheHas(c, k) == CacheFound(c, k) # {}

CacheGet(c, k) == (CHOOSE x \in CacheFound(c, k) : TRUE)[2]

\* an assignment to a key that is found keeps the stored key and replaces its value
CacheSet(c, k, v) ==
    IF CacheHas(c, k)
    THEN (c \ CacheFound(c, k)) \cup {<<x[1], v>> : x \in CacheFound(c, k)}
    ELSE c \cup {<<k, v>>}

(***************************************************************************)
(* motives/graded_motive.py, motives/sliced_motive.py, categories/slicing.py*)
(* One GradedMotive built with a coefficient function at_dv, one subclass   *)
(* of SlicedMotive implementing _at and _of, and one Slicing over it.  The  *)
(* handlers work on a record st of the three caches, the count of           *)
(* invocations of each coefficient function and the next fresh object id.   *)
(***************************************************************************)
CacheVectors == Box(SetMin(Ranks))

CachePhases ==
    {PhaseOf(z, 0) : z \in {<<1, 1>>, <<2, 2>>, <<-1, 0>>, <<-2, 0>>, <<-1, 1>>, <<-2, 1>>}}

CoefficientCalls ==
    ({"at_dv", "_at"} \X CacheVectors) \cup ({"_of"} \X CachePhases)

Motive(v) == [cls |-> "FractionalMotive", id |-> v]

\* the coefficient functions are pure: the value depends on the vector alone
at_dv(d) == Motive(d[1] + 1)

Invoke(st, fn, arg) ==
    [st EXCEPT !.invoked = [@ EXCEPT ![<<fn, arg>>] = @ + 1]]

Fresh(st, cls) ==
    [st |-> [st EXCEPT !.nextId = @ + 1], val |-> [cls |-> cls, id |-> st.nextId]]

GradedAt(st, d) == [st |-> Invoke(st, "at_dv", d), val |-> at_dv(d)]

GradedCall(st, d) ==
    IF CacheHas(st.GradedMotive, VecKey(d))
    THEN [st |-> st, val |-> CacheGet(st.GradedMotive, VecKey(d))]
    ELSE LET r == GradedAt(st, d)
         IN  [st |-> [r.st EXCEPT !.GradedMotive = CacheSet(@, VecKey(d), r.val)],
              val |-> r.val]

SlicedAtImpl(st, d) == [st |-> Invoke(st, "_at", d), val |-> at_dv(d)]

SlicedOfImpl(st, phi) == Fresh(Invoke(st, "_of", phi), "MotivicSeries")

SlicedAt(st, d) ==
    LET r == SlicedAtImpl(st, d)
    IN  [st |-> [r.st EXCEPT !.SlicedMotive = CacheSet(@, VecKey(d), r.val)],
         val |-> r.val]

SlicedOf(st, phi) ==
    LET r == SlicedOfImpl(st, phi)
    IN  [st |-> [r.st EXCEPT !.SlicedMotive = CacheSet(@, PhaseKey(phi), r.val)],
         val |-> r.val]

SlicedCall(st, arg) ==
    IF CacheHas(st.SlicedMotive, arg)
    THEN [st |-> st, val |-> CacheGet(st.SlicedMotive, arg)]
    ELSE LET r == IF arg.type = "DimensionVector"
                  THEN SlicedAt(st, arg.v)
                  ELSE SlicedOf(st, arg.v)
             c == CacheSet(r.st.SlicedMotive, arg, r.val)
         IN  [st |-> [r.st EXCEPT !.SlicedMotive = c], val |-> CacheGet(c, arg)]

SlicingCall(st, phi) ==
    IF CacheHas(st.Slicing, PhaseKey(phi))
    THEN [st |-> st, val |-> CacheGet(st.Slicing, PhaseKey(phi))]
    ELSE LET m == SlicedCall(st, PhaseKey(phi))
             r == Fresh(m.st, "AbelianCategory")
         IN  [st |-> [r.st EXCEPT !.Slicing = CacheSet(@, PhaseKey(phi), r.val)],
              val |-> r.val]

(***************************************************************************)
(* The specification of the memoising objects: each step is one request.    *)
(***************************************************************************)
InitCache ==
    /\ IdleDT
    /\ IdleWalk
    /\ IdleCharge
    /\ IdleCone
    /\ IdlePhase
    /\ IdlePairing
    /\ IdlePleth
    /\ IdleHN
    /\ IdleResolve
    /\ caches = [GradedMotive |-> {}, SlicedMotive |-> {}, Slicing |-> {}]
    /\ invoked = [c \in CoefficientCalls |-> 0]
    /\ returned = {}
    /\ nextId = 0
    /\ requests = 0

State ==
    [GradedMotive |-> caches.GradedMotive, SlicedMotive |-> caches.SlicedMotive,
     Slicing |-> caches.Slicing, invoked |-> invoked, nextId |-> nextId]

Request(obj, req, key, r) ==
    /\ requests < MaxRequests
    /\ requests' = requests + 1
    /\ caches' = [GradedMotive |-> r.st.GradedMotive,
                  SlicedMotive |-> r.st.SlicedMotive,
                  Slicing |-> r.st.Slicing]
    /\ invoked' = r.st.invoked
    /\ nextId' = r.st.nextId
    /\ returned' = returned \cup {[obj |-> obj, req |-> req, key |-> key, val |-> r.val]}
    /\ UNCHANGED notCache

ReqGradedCall ==
    \E d \in CacheVectors :
        Request("GradedMotive", "__call__", VecKey(d), GradedCall(State, d))

ReqGradedAt ==
    \E d \in CacheVectors :
        Request("GradedMotive", "at", VecKey(d), GradedAt(State, d))

ReqSlicedCall ==
    \E arg \in {VecKey(d) : d \in CacheVectors} \cup {PhaseKey(p) : p \in CachePhases} :
        Request("SlicedMotive", "__call__", arg, SlicedCall(State, arg))

ReqSlicedAt ==
    \E d \in CacheVectors :
        Request("SlicedMotive", "at", VecKey(d), SlicedAt(State, d))

ReqSlicedOf ==
    \E phi \in CachePhases :
        Request("SlicedMotive", "of", PhaseKey(phi), SlicedOf(State, phi))

ReqSlicingCall ==
    \E phi \in CachePhases :
        Request("Slicing", "__call__", PhaseKey(phi), SlicingCall(State, phi))

NextCache ==
    \/ ReqGradedCall
    \/ ReqGradedAt
    \/ ReqSlicedCall
    \/ ReqSlicedAt
    \/ ReqSlicedOf
    \/ ReqSlicingCall

SpecCache == InitCache /\ [][NextCache]_vars

\* C6: whatever requests are made of a GradedMotive or SlicedMotive, each
\* coefficient function (at_dv, _at, _of) is invoked at most once for each
\* key: later requests for the key are answered from the cache.
C6_ComputedOncePerKey ==
    \A c \in DOMAIN invoked : invoked[c] <= 1

\* C8: any two calls of one Slicing with Phases that compare equal return
\* the same AbelianCategory object.
C8_OneCategoryPerPhase ==
    \A x \in returned, y \in returned :
        (x.obj = "Slicing" /\ y.obj = "Slicing" /\ PhaseEq(x.key.v, y.key.v))
            => x.val = y.val

(***************************************************************************)
(* motives/sliced_motive.py, motives/motivic_series.py: a SlicedMotive      *)
(* built with cone_at and phase_of, run one call at a time.  A frame is a   *)
(* call in progress: the function, its argument, the object it is bound to  *)
(* (0 is the SlicedMotive, i > 0 the i-th MotivicSeries it has built) and   *)
(* the point it has reached in its body.                                    *)
(***************************************************************************)
\* an object handed out by cone_at that offers the method contains(d)
\* which MotivicSeries.at calls
ContainsCone(n, c) == [kind |-> "ContainsCone", rank |-> n, cond |-> c]

HasContains(k) == k.kind = "ContainsCone"

ConeContains(k, d) == Condition(k.cond, d)

ResolveCones ==
    {StandardCone(SetMin(Ranks))}
        \cup {Subcone(SetMin(Ranks), c) : c \in Conditions}
        \cup {ContainsCone(SetMin(Ranks), c) : c \in Conditions}

\* phase_of: a constant phase, or the phase of the complex number (d+1, d+1)
PhaseOfs ==
    {[d \in CacheVectors |-> p] : p \in {PhaseOf(<<1, 1>>, 0), PhaseOf(<<-1, 0>>, 0)}}
        \cup {[d \in CacheVectors |-> PhaseOf(<<d[1] + 1, d[1] + 1>>, 0)]}

Frame(fn, arg, self, at) == [fn |-> fn, arg |-> arg, self |-> self, pc |-> at]

Top == stack[Len(stack)]

NoneValue == [cls |-> "None", id |-> 0]

Exception(e) == [cls |-> e, id |-> 0]

\* no frame below catches anything but NotImplementedError and KeyError
Raise(e) ==
    /\ stack' = <<>>
    /\ status' = "idle"
    /\ ret' = Exception(e)

Return(v) ==
    /\ stack' = SubSeq(stack, 1, Len(stack) - 1)
    /\ status' = IF Len(stack) = 1 THEN "idle" ELSE status
    /\ ret' = v

Call(frame, resume) ==
    IF Len(stack) >= MaxDepth
    THEN Raise("RecursionError")
    ELSE /\ stack' = Append([stack EXCEPT ![Len(stack)].pc = resume], frame)
         /\ UNCHANGED <<status, ret>>

InitResolve ==
    /\ IdleDT
    /\ IdleWalk
    /\ IdleCharge
    /\ IdleCone
    /\ IdlePhase
    /\ IdlePairing
    /\ IdleCache
    /\ IdlePleth
    /\ IdleHN
    /\ setup \in [cone_at : ResolveCones, phase_of : PhaseOfs]
    /\ stack = <<>>
    /\ status = "idle"
    /\ ret = NoneValue
    /\ heap = [sliced |-> {}, series |-> <<>>]
    /\ asked = 0

RequestAt ==
    /\ status = "idle"
    /\ asked < MaxRequests
    /\ \E d \in CacheVectors :
          stack' = <<Frame("SlicedMotive.at", VecKey(d), 0, "enter")>>
    /\ status' = "running"
    /\ ret' = NoneValue
    /\ asked' = asked + 1
    /\ UNCHANGED <<setup, heap>>
    /\ UNCHANGED notResolve

RequestOf ==
    /\ status = "idle"
    /\ asked < MaxRequests
    /\ \E phi \in CachePhases :
          stack' = <<Frame("SlicedMotive.of", PhaseKey(phi), 0, "enter")>>
    /\ status' = "running"
    /\ ret' = NoneValue
    /\ asked' = asked + 1
    /\ UNCHANGED <<setup, heap>>
    /\ UNCHANGED notResolve

Running(fn, at) == status = "running" /\ Top.fn = fn /\ Top.pc = at

\* SlicedMotive.at: super().at(d) ends in _at, which raises
\* NotImplementedError; the handler asks self(phase_of(d)) for the series
SlicedAtEnter ==
    /\ Running("SlicedMotive.at", "enter")
    /\ Call(Frame("SlicedMotive.__call__", PhaseKey(setup.phase_of[Top.arg.v]), 0, "enter"),
            "series")
    /\ UNCHANGED <<setup, heap, asked>>
    /\ UNCHANGED notResolve

\* SlicedMotive.__call__ with a Phase: the cached series, or of(phi)
SlicedCallEnter ==
    /\ Running("SlicedMotive.__call__", "enter")
    /\ IF CacheHas(heap.sliced, Top.arg)
       THEN Return(CacheGet(heap.sliced, Top.arg))
       ELSE Call(Frame("SlicedMotive.of", Top.arg, 0, "enter"), "store")
    /\ UNCHANGED <<setup, heap, asked>>
    /\ UNCHANGED notResolve

\* SlicedMotive.of: _of raises NotImplementedError; the handler builds the
\* series over cone_at(phi) whose coefficient function is self.at
SlicedOfEnter ==
    /\ Running("SlicedMotive.of", "enter")
    /\ LET series == [cls |-> "MotivicSeries", id |-> Len(heap.series) + 1]
       IN  /\ heap' = [sliced |-> CacheSet(heap.sliced, Top.arg, series),
                       series |-> Append(heap.series, [cone |-> setup.cone_at, cache |-> {}])]
           /\ Return(series)
    /\ UNCHANGED <<setup, asked>>
    /\ UNCHANGED notResolve

\* GradedMotive.__call__ on a series: the cached value, or at(d)
SeriesCallEnter ==
    /\ Running("GradedMotive.__call__", "enter")
    /\ IF CacheHas(heap.series[Top.self].cache, Top.arg)
       THEN Return(CacheGet(heap.series[Top.self].cache, Top.arg))
       ELSE Call(Frame("MotivicSeries.at", Top.arg, Top.self, "enter"), "store")
    /\ UNCHANGED <<setup, heap, asked>>
    /\ UNCHANGED notResolve

\* MotivicSeries.at: zero outside the cone, else the coefficient function,
\* which is lambda d: self.at(d) of the SlicedMotive
SeriesAtEnter ==
    /\ Running("MotivicSeries.at", "enter")
    /\ LET k == heap.series[Top.self].cone
       IN  IF ~HasContains(k)
           THEN Raise("AttributeError")
           ELSE IF ~ConeContains(k, Top.arg.v)
                THEN Return(Motive(0))
                ELSE Call(Frame("SlicedMotive.at", Top.arg, 0, "enter"), "result")
    /\ UNCHANGED <<setup, heap, asked>>
    /\ UNCHANGED notResolve

\* the frame on top goes on after the call it made has returned
Resume ==
    /\ status = "running"
    /\ Top.pc \in {"series", "store", "result"}
    /\ CASE Top.fn = "SlicedMotive.at" /\ Top.pc = "series" ->
                /\ Call(Frame("GradedMotive.__call__", Top.arg, ret.id, "enter"), "result")
                /\ UNCHANGED heap
         [] Top.fn = "SlicedMotive.at" /\ Top.pc = "result" ->
                /\ heap' = [heap EXCEPT !.sliced = CacheSet(@, Top.arg, ret)]
                /\ Return(ret)
         [] Top.fn = "SlicedMotive.__call__" /\ Top.pc = "store" ->
                LET c == CacheSet(heap.sliced, Top.arg, ret)
                IN  /\ heap' = [heap EXCEPT !.sliced = c]
                    /\ Return(CacheGet(c, Top.arg))
         [] Top.fn = "GradedMotive.__call__" /\ Top.pc = "store" ->
                LET c == CacheSet(heap.series[Top.self].cache, Top.arg, ret)
                IN  /\ heap' = [heap EXCEPT !.series[Top.self].cache = c]
                    /\ Return(CacheGet(c, Top.arg))
         [] OTHER ->
                /\ UNCHANGED heap
                /\ Return(ret)
    /\ UNCHANGED <<setup, asked>>
    /\ UNCHANGED notResolve

NextResolve ==
    \/ RequestAt
    \/ RequestOf
    \/ SlicedAtEnter
    \/ SlicedCallEnter
    \/ SlicedOfEnter
    \/ SeriesCallEnter
    \/ SeriesAtEnter
    \/ Resume

SpecResolve == InitResolve /\ [][NextResolve]_vars

\* C7: while a SlicedMotive built with phase_of and cone_at resolves a
\* request, at(d) is never entered again for a vector d for which a call
\* of at is still waiting for its result.
C7_AtNeverReentered ==
    \A i \in DOMAIN stack, j \in DOMAIN stack :
        (i < j /\ stack[i].fn = "SlicedMotive.at" /\ stack[j].fn = "SlicedMotive.at")
            => stack[i].arg # stack[j].arg

(***************************************************************************)
(* motives/motivic_series.py, motives/exp.py, motives/log.py: a            *)
(* MotivicSeries x over a cone with a coefficient function, the series     *)
(* Exp(x) and Log(x) built from it, and their evaluation at a vector.      *)
(* An outcome is a record of the exception raised ("none" when the call    *)
(* returns) and the value returned.                                        *)
(***************************************************************************)
Outcome(e, v) == [exc |-> e, val |-> v]

Raised(e) == Outcome(e, 0)

\* d.is_zero(): is_zero is a property, so the call applies a bool
IsZeroCall(d) == Raised("TypeError")

\* DimensionVector.zero(num_vertices=n): the parameter of zero is named length
ZeroByNumVertices(n) == Raised("TypeError")

\* cone.contains(d): the cones of linear_algebra have no such method
ContainsCall(k, d) ==
    IF HasContains(k) THEN Outcome("none", ConeContains(k, d)) ELSE Raised("AttributeError")

\* MotivicSeries.at with a coefficient function
SeriesAt(x, d) ==
    LET c == ContainsCall(x.cone, d)
    IN  IF c.exc # "none" THEN Raised(c.exc)
        ELSE IF ~c.val THEN Outcome("none", 0)
        ELSE Outcome("none", x.coeff[d])

\* MotivicSeries.at of an Exp or a Log: zero outside the cone, else _at,
\* which begins with d.is_zero()
TransformAt(x, d) ==
    LET c == ContainsCall(x.cone, d)
    IN  IF c.exc # "none" THEN Raised(c.exc)
        ELSE IF ~c.val THEN Outcome("none", 0)
        ELSE IF IsZeroCall(d).exc # "none" THEN Raised(IsZeroCall(d).exc)
        ELSE Outcome("none", 0)

\* y.at(d) for the argument y of a transform
ArgAt(y, d) == IF y.cls = "MotivicSeries" THEN SeriesAt(y, d) ELSE TransformAt(y, d)

\* Exp._validate, run by Exp.__init__
ExpNew(y) ==
    LET a == ArgAt(y, Zero(y.cone.rank))
    IN  IF a.exc # "none" THEN a.exc
        ELSE IF a.val # 0 THEN "AssertionError"
        ELSE "built"

\* Log._validate, run by Log.__init__
LogNew(y) ==
    LET z == ZeroByNumVertices(y.cone.rank)
    IN  IF z.exc # "none" THEN z.exc
        ELSE IF ArgAt(y, Zero(y.cone.rank)).exc # "none"
             THEN ArgAt(y, Zero(y.cone.rank)).exc
        ELSE IF ArgAt(y, Zero(y.cone.rank)).val # 1 THEN "AssertionError"
        ELSE "built"

\* GradedMotive.__call__ of an Exp or a Log with the given cache
TransformCall(x, cache, d) ==
    IF CacheHas(cache, VecKey(d))
    THEN [out |-> Outcome("none", CacheGet(cache, VecKey(d)).id), cache |-> cache]
    ELSE LET r == TransformAt(x, d)
         IN  [out |-> r,
              cache |-> IF r.exc = "none"
                        THEN CacheSet(cache, VecKey(d), Motive(r.val))
                        ELSE cache]

\* the expression Outer(Inner(x))(d), evaluated from scratch
Composite(inner, outer, x, d) ==
    LET y == [x EXCEPT !.cls = inner]
        i == IF inner = "Exp" THEN ExpNew(x) ELSE LogNew(x)
        o == IF outer = "Exp" THEN ExpNew(y) ELSE LogNew(y)
    IN  IF i # "built" THEN Raised(i)
        ELSE IF o # "built" THEN Raised(o)
        ELSE TransformCall(x, {}, d).out

PlethCoeffs == [CacheVectors -> 0..1]

InitPleth ==
    /\ IdleDT
    /\ IdleWalk
    /\ IdleCharge
    /\ IdleCone
    /\ IdlePhase
    /\ IdlePairing
    /\ IdleCache
    /\ IdleResolve
    /\ IdleHN
    /\ argSeries \in [cls : {"MotivicSeries"}, cone : ResolveCones, coeff : PlethCoeffs]
    /\ expObj = [state |-> "none", cache |-> {}]
    /\ logObj = [state |-> "none", of |-> "none"]
    /\ evald = [expr |-> "none", d |-> <<>>, exc |-> "none", val |-> 0]

NewExp ==
    /\ expObj.state = "none"
    /\ expObj' = [expObj EXCEPT !.state = ExpNew(argSeries)]
    /\ UNCHANGED <<argSeries, logObj, evald>>
    /\ UNCHANGED notPleth

NewLog ==
    /\ logObj.state = "none"
    /\ \E y \in {"x"} \cup (IF expObj.state = "built" THEN {"Exp(x)"} ELSE {}) :
          logObj' = [state |-> LogNew(IF y = "x" THEN argSeries
                                      ELSE [argSeries EXCEPT !.cls = "Exp"]),
                     of |-> y]
    /\ UNCHANGED <<argSeries, expObj, evald>>
    /\ UNCHANGED notPleth

CallExp ==
    /\ expObj.state = "built"
    /\ \E d \in CacheVectors :
          LET r == TransformCall(argSeries, expObj.cache, d)
          IN  /\ expObj' = [expObj EXCEPT !.cache = r.cache]
              /\ evald' = [expr |-> "Exp(x)", d |-> d, exc |-> r.out.exc, val |-> r.out.val]
    /\ UNCHANGED <<argSeries, logObj>>
    /\ UNCHANGED notPleth

RoundTrip ==
    /\ \E d \in CacheVectors, e \in {<<"Exp", "Log">>, <<"Log", "Exp">>} :
          LET r == Composite(e[1], e[2], argSeries, d)
          IN  evald' = [expr |-> IF e[1] = "Exp" THEN "Log(Exp(x))" ELSE "Exp(Log(x))",
                        d |-> d, exc |-> r.exc, val |-> r.val]
    /\ UNCHANGED <<argSeries, expObj, logObj>>
    /\ UNCHANGED notPleth

\* Log(x)(d), evaluated from scratch: Log.__init__, then GradedMotive.__call__
\* with an empty cache.  stored lists the vectors in the order in which
\* their value entered the cache of the Log, asked holds the vectors at which
\* Log._at called the Log again (its _at stops at d.is_zero(), before any
\* such call).
EvalLog ==
    /\ \E d \in CacheVectors :
          LET n == LogNew(argSeries)
              r == TransformCall([argSeries EXCEPT !.cls = "Log"], {}, d)
          IN  evald' = IF n # "built"
                       THEN [expr |-> "Log(x)", d |-> d, exc |-> n, val |-> 0,
                             stored |-> <<>>, asked |-> {}]
                       ELSE [expr |-> "Log(x)", d |-> d, exc |-> r.out.exc,
                             val |-> r.out.val,
                             stored |-> IF r.out.exc = "none" THEN <<d>> ELSE <<>>,
                             asked |-> {}]
    /\ UNCHANGED <<argSeries, expObj, logObj>>
    /\ UNCHANGED notPleth

NextPleth == NewExp \/ NewLog \/ CallExp \/ RoundTrip \/ EvalLog

SpecPleth == InitPleth /\ [][NextPleth]_vars

\* the vector lies in the cone of the series
InCone(k, d) == IF HasContains(k) THEN ConeContains(k, d) ELSE Contains(k, d)

\* C4: for a series x with x(0) = 0, Log(Exp(x))(d) is x(d) for every d in
\* the cone, and for a series x with x(0) = 1, Exp(Log(x))(d) is x(d) for
\* every d in the cone.
C4_ExpLogInverse ==
    LET zero == Zero(argSeries.cone.rank)
    IN  /\ (evald.expr = "Log(Exp(x))" /\ argSeries.coeff[zero] = 0
                /\ InCone(argSeries.cone, evald.d))
            => (evald.exc = "none" /\ evald.val = argSeries.coeff[evald.d])
        /\ (evald.expr = "Exp(Log(x))" /\ argSeries.coeff[zero] = 1
                /\ InCone(argSeries.cone, evald.d))
            => (evald.exc = "none" /\ evald.val = argSeries.coeff[evald.d])

(***************************************************************************)
(* stability/stability_condition.py, motives/motive_of_semistables.py: a    *)
(* StabilityCondition over num_vertices vertices with the charge            *)
(* (real, imag), the generator hn_partitions(d, k) and the                  *)
(* MotiveOfSemistables built over the condition.  The kind "Extended" is a  *)
(* StabilityCondition that also carries the attributes rank,                *)
(* abelian_category and charge which MotiveOfSemistables reads.             *)
(***************************************************************************)
HNCones(n) == {StandardCone(n)} \cup {ContainsCone(n, c) : c \in Conditions}

StabilityConditions ==
    UNION {[kind : {"StabilityCondition", "Extended"}, num_vertices : {n},
            real : [1..n -> 0..1], imag : [1..n -> 0..1], cone : HNCones(n)] : n \in Ranks}

\* the motive of all objects, a coefficient function of the vector alone
motive_of_all_objects(d) == CoordSum(d, Len(d)) + 1

\* hn_partitions up to its first yield: the length checks, k = 2 * d when no
\* bound is given, then k.is_zero()
HnFirst(sc, d, k) ==
    IF Len(d) # sc.num_vertices THEN Raised("AssertionError")
    ELSE IF k # None /\ Len(k) # sc.num_vertices THEN Raised("AssertionError")
    ELSE LET bound == IF k # None THEN k ELSE VMul(d, 2)
         IN  IF IsZeroCall(bound).exc # "none" THEN Raised(IsZeroCall(bound).exc)
             ELSE Outcome("none", 0)

\* StabilityCondition.partitions up to its first yield: the same length
\* checks and bound, then k.is_zero()
PartitionsFirst(sc, d, k) ==
    IF Len(d) # sc.num_vertices THEN Raised("AssertionError")
    ELSE IF k # None /\ Len(k) # sc.num_vertices THEN Raised("AssertionError")
    ELSE LET bound == IF k # None THEN k ELSE VMul(d, 2)
         IN  IF IsZeroCall(bound).exc # "none" THEN Raised(IsZeroCall(bound).exc)
             ELSE Outcome("none", 0)

\* MotiveOfSemistables.__init__ reads stab_cond.rank first
MotiveOfSemistablesNew(sc) ==
    IF sc.kind = "StabilityCondition" THEN "AttributeError" ELSE "built"

\* MotiveOfSemistables._at: the motive of all objects at d, then the HN
\* types of d other than {d}
SemistablesAtImpl(sc, d) ==
    LET c == ContainsCall(sc.cone, d)
        h == HnFirst(sc, d, None)
    IN  IF c.exc # "none" THEN Raised(c.exc)
        ELSE IF h.exc # "none" THEN Raised(h.exc)
        ELSE Outcome("none", IF c.val THEN motive_of_all_objects(d) ELSE 0)

InitHN ==
    /\ IdleDT
    /\ IdleWalk
    /\ IdleCharge
    /\ IdleCone
    /\ IdlePhase
    /\ IdlePairing
    /\ IdleCache
    /\ IdleResolve
    /\ IdlePleth
    /\ stab \in StabilityConditions
    /\ hn = [fn |-> "none", pc |-> "none", d |-> <<>>, k |-> <<>>, i |-> 0, exc |-> "none",
             out |-> <<>>]
    /\ semi = [state |-> "none", d |-> <<>>, exc |-> "none", types |-> <<>>, cache |-> {}]

\* calling a generator function runs none of its body
CallHnPartitions ==
    /\ hn.pc = "none"
    /\ \E n \in Ranks :
         \E d \in Box(n), k \in {None} \cup Box(stab.num_vertices) :
            hn' = [hn EXCEPT !.fn = "hn_partitions", !.pc = "created", !.d = d, !.k = k]
    /\ UNCHANGED <<stab, semi>>
    /\ UNCHANGED notHN

\* StabilityCondition.partitions is a generator function as well
CallStabPartitions ==
    /\ hn.pc = "none"
    /\ \E n \in Ranks :
         \E d \in Box(n), k \in {None} \cup Box(stab.num_vertices) :
            hn' = [hn EXCEPT !.fn = "partitions", !.pc = "created", !.d = d, !.k = k]
    /\ UNCHANGED <<stab, semi>>
    /\ UNCHANGED notHN

NextHnPartition ==
    /\ hn.pc = "created"
    /\ LET r == IF hn.fn = "partitions"
                THEN PartitionsFirst(stab, hn.d, hn.k)
                ELSE HnFirst(stab, hn.d, hn.k)
       IN  hn' = [hn EXCEPT !.pc = IF r.exc = "none" THEN "yielded" ELSE "raised",
                            !.exc = r.exc]
    /\ UNCHANGED <<stab, semi>>
    /\ UNCHANGED notHN

NewMotiveOfSemistables ==
    /\ semi.state = "none"
    /\ semi' = [semi EXCEPT !.state = MotiveOfSemistablesNew(stab)]
    /\ UNCHANGED <<stab, hn>>
    /\ UNCHANGED notHN

\* SlicedMotive.at of the MotiveOfSemistables: _at, then the store
SemistablesAt ==
    /\ semi.state = "built"
    /\ \E d \in Box(stab.num_vertices) :
          LET r == SemistablesAtImpl(stab, d)
          IN  semi' = [semi EXCEPT !.d = d, !.exc = r.exc,
                          !.cache = IF r.exc = "none"
                                    THEN CacheSet(@, VecKey(d), Motive(r.val))
                                    ELSE @]
    /\ UNCHANGED <<stab, hn>>
    /\ UNCHANGED notHN

NextHN ==
    \/ CallHnPartitions
    \/ CallStabPartitions
    \/ NextHnPartition
    \/ NewMotiveOfSemistables
    \/ SemistablesAt

SpecHN == InitHN /\ [][NextHN]_vars

RECURSIVE Pow(_, _)
Pow(b, n) == IF n <= 0 THEN 1 ELSE b * Pow(b, n - 1)

\* the product of the semistable motives stored for the pieces of an HN type
RECURSIVE Pieces(_, _)
Pieces(part, cache) ==
    IF part = {} THEN 1
    ELSE LET p == CHOOSE p \in part : TRUE
         IN  CacheGet(cache, VecKey(p)).id * Pieces(part \ {p}, cache)

\* the sum over the HN types of L^(exponent + shift) times the product of the pieces
RECURSIVE HNSum(_, _, _, _)
HNSum(types, i, cache, shift) ==
    IF i = 0 THEN 0
    ELSE Pow(LValue, types[i].exponent + shift) * Pieces(types[i].part, cache)
            + HNSum(types, i - 1, cache, shift)

\* the least power of L that clears the negative exponents of the HN types
RECURSIVE Shift(_, _)
Shift(types, i) ==
    IF i = 0 THEN 0
    ELSE SetMax({Shift(types, i - 1), 0 - types[i].exponent})

\* C5: for every d in the cone for which the semistable motive is asked,
\* the motive of all objects at d is the sum, over the HN types emitted by
\* hn_partitions(d), the type {d} included, of L^exponent times the product
\* of the semistable motives of the pieces.
C5_HNDecomposition ==
    (semi.d # None /\ InCone(stab.cone, semi.d))
        => /\ semi.exc = "none"
           /\ LET s == Shift(semi.types, Len(semi.types))
              IN  motive_of_all_objects(semi.d) * Pow(LValue, s)
                    = HNSum(semi.types, Len(semi.types), semi.cache, s)

\* C11: constructing a Pairing raises ValueError whenever some key (i, j) of
\* the coefficient map has i or j outside [0, rank), so a Pairing that was
\* constructed has all the indices of its coefficient map within [0, rank).
C11_IndicesValidated ==
    built.cls = "Pairing"
        => /\ ~IndicesValid => built.exc = "ValueError"
           /\ built.exc = "none"
                => \A x \in built.members.self.coeff_matrix :
                      InRange(x[1][1], built.rank) /\ InRange(x[1][2], built.rank)

(***************************************************************************)
(* linear_algebra/phase.py: the operations of a Phase.  One, two or three   *)
(* Phases are made by Phase.of and an operation on that many Phases is      *)
(* applied to them; the operations change nothing of a Phase, so one        *)
(* application stands for every one.                                        *)
(***************************************************************************)
\* Phase(value)
PhaseNew(value) == <<IF value % 2 = 0 THEN 1 ELSE -1, 0, value \div 2>>

PhaseLt(p, q) ==
    IF PhaseInt(p) < PhaseInt(q) THEN TRUE
    ELSE IF PhaseInt(p) > PhaseInt(q) THEN FALSE
    ELSE p[2] * q[1] - p[1] * q[2] < 0

PhaseLe(p, q) == PhaseLt(p, q) \/ PhaseEq(p, q)

PhaseCovers(p, z) == PhaseEq(p, PhaseOf(z, p[3]))

PhaseBool(p) == p[3] # 0 \/ p[2] # 0 \/ p[1] # 0

\* the complex numbers and the branches Phase.of is given
PhaseNumbers == ((0 - MaxCoord)..MaxCoord) \X ((0 - MaxCoord)..MaxCoord)

PhaseBranches == {0, 1}

Phases == {PhaseOf(z, k) : z \in PhaseNumbers, k \in PhaseBranches}

InitPhase ==
    /\ IdleDT
    /\ IdleWalk
    /\ IdleCharge
    /\ IdleCone
    /\ IdlePairing
    /\ IdleCache
    /\ IdleResolve
    /\ IdlePleth
    /\ IdleHN
    /\ phs \in UNION {[1..n -> Phases] : n \in 1..3}
    /\ phRes = [op |-> "none"]

Table(F(_, _)) == [i \in 1..3 |-> [j \in 1..3 |-> F(phs[i], phs[j])]]

PhaseCompare ==
    /\ phRes.op = "none"
    /\ Len(phs) = 3
    /\ phRes' = [op |-> "compare", eq |-> Table(PhaseEq), lt |-> Table(PhaseLt),
                 le |-> Table(PhaseLe)]
    /\ UNCHANGED phs
    /\ UNCHANGED notPhase

\* the two Phases as keys of a dict: their hashes and their equality
PhaseHashes ==
    /\ phRes.op = "none"
    /\ Len(phs) = 2
    /\ phRes' = [op |-> "hash", hash |-> [i \in 1..2 |-> PhaseHash(phs[i])],
                 eq |-> PhaseEq(phs[1], phs[2])]
    /\ UNCHANGED phs
    /\ UNCHANGED notPhase

\* phs[1].covers(z) for the complex number zero or the one phs[2] was made of
PhaseCoversCall ==
    /\ phRes.op = "none"
    /\ Len(phs) = 2
    /\ \E z \in {<<0, 0>>, <<phs[2][1], phs[2][2]>>} :
          phRes' = [op |-> "covers", z |-> z, val |-> PhaseCovers(phs[1], z)]
    /\ UNCHANGED phs
    /\ UNCHANGED notPhase

PhaseBoolCall ==
    /\ phRes.op = "none"
    /\ Len(phs) = 1
    /\ phRes' = [op |-> "bool", val |-> PhaseBool(phs[1])]
    /\ UNCHANGED phs
    /\ UNCHANGED notPhase

\* Phase.__neg__
PhaseNeg(p) == PhaseOf(<<p[1], 0 - p[2]>>, 0 - p[3] - 1)

\* Phase.__add__ of two Phases
PhaseAdd(p, q) ==
    LET real == p[1] * q[1] - p[2] * q[2]
        imag == p[2] * q[1] + p[1] * q[2]
        sum_is_in_upper_half_plane == imag > 0 \/ (imag = 0 /\ real > 0)
        branch ==
            IF is_in_upper_half_plane(p) /\ is_in_upper_half_plane(q)
            THEN p[3] + q[3]
            ELSE IF is_in_upper_half_plane(p) /\ ~sum_is_in_upper_half_plane
            THEN p[3] + q[3]
            ELSE IF is_in_upper_half_plane(q) /\ ~sum_is_in_upper_half_plane
            THEN p[3] + q[3]
            ELSE p[3] + q[3] + 1
    IN  PhaseOf(<<real, imag>>, branch)

\* Phase.__sub__
PhaseSub(p, q) == PhaseAdd(p, PhaseNeg(q))

\* -phi, phi + (-phi) and phi - phi
PhaseNegate ==
    /\ phRes.op = "none"
    /\ Len(phs) = 1
    /\ phRes' = [op |-> "neg", neg |-> PhaseNeg(phs[1]),
                 sum |-> PhaseAdd(phs[1], PhaseNeg(phs[1])),
                 diff |-> PhaseSub(phs[1], phs[1])]
    /\ UNCHANGED phs
    /\ UNCHANGED notPhase

NextPhase ==
    \/ PhaseCompare
    \/ PhaseHashes
    \/ PhaseCoversCall
    \/ PhaseBoolCall
    \/ PhaseNegate

SpecPhase == InitPhase /\ [][NextPhase]_vars

\* the Phase was made of a complex number other than zero
NonZero(p) == p[1] # 0 \/ p[2] # 0

\* q was made of a positive multiple of the complex number of p, on its branch
Multiple(p, q) ==
    /\ NonZero(p)
    /\ p[3] = q[3]
    /\ \E c \in 1..MaxCoord : q[1] = c * p[1] /\ q[2] = c * p[2]

\* C12: a Phase made of (a, b) and one made of a positive multiple
\* (c*a, c*b) on the same branch are equal, and they compare the same way
\* (<, ==, <=, in both directions) with every third Phase.
C12_RepresentativeIndependent ==
    (phRes.op = "compare" /\ Multiple(phs[1], phs[2]))
        => /\ phRes.eq[1][2] /\ phRes.eq[2][1]
           /\ phRes.eq[1][3] = phRes.eq[2][3] /\ phRes.eq[3][1] = phRes.eq[3][2]
           /\ phRes.lt[1][3] = phRes.lt[2][3] /\ phRes.lt[3][1] = phRes.lt[3][2]
           /\ phRes.le[1][3] = phRes.le[2][3] /\ phRes.le[3][1] = phRes.le[3][2]

C12_Witness ==
    /\ phRes.op = "compare"
    /\ Multiple(phs[1], phs[2])
    /\ phs[1] # phs[2]
    /\ NonZero(phs[3])
    /\ phRes.lt[1][3]
    /\ ~phRes.eq[1][3]

\* C13: two Phases that compare equal have the same hash, so that equal
\* Phases address the same entry of a dict.
C13_HashAgreesWithEq ==
    (phRes.op = "hash" /\ phRes.eq) => phRes.hash[1] = phRes.hash[2]

\* C14: every Phase covers the complex number zero: phi.covers((0, 0)) is
\* True for every representative and every branch.
C14_CoversZero ==
    (phRes.op = "covers" /\ phRes.z = <<0, 0>>) => phRes.val

\* C15: bool(phi) is False exactly when phi equals Phase(0), the phase of
\* the positive real axis on branch 0, and True for every other Phase.
C15_BoolIsNonZero ==
    phRes.op = "bool" => (phRes.val <=> ~PhaseEq(phs[1], PhaseNew(0)))

(***************************************************************************)
(* The cone enumerators called with any dimension vector: of the cone's    *)
(* rank or not, a member of the cone or not.                               *)
(***************************************************************************)
AnyVectors == UNION {Box(n) : n \in Ranks}

InitConeAny ==
    /\ IdleDT
    /\ IdleWalk
    /\ IdleCharge
    /\ IdlePhase
    /\ IdlePairing
    /\ IdleCache
    /\ IdleResolve
    /\ IdlePleth
    /\ IdleHN
    /\ cone \in Cones
    /\ dv \in AnyVectors
    /\ op = "none"
    /\ gen = <<>>
    /\ out = <<>>
    /\ pc = "idle"

SpecConeAny == InitConeAny /\ [][NextCone]_vars

IsMember == cone.rank = Len(dv) /\ Contains(cone, dv)

\* C16: summands(d) and partitions(d) both fail at once with an
\* AssertionError, before yielding any element, when d has the wrong length
\* or is not a member of the cone.
C16_MembershipFailFast ==
    (op \in {"summands", "partitions"} /\ ~IsMember)
        => (pc = "AssertionError" /\ out = <<>>)

ExactlyOne(a, b, c) == (a /\ ~b /\ ~c) \/ (~a /\ b /\ ~c) \/ (~a /\ ~b /\ c)

\* C17: on Phases of nonzero complex numbers the comparison is a total
\* order: of p < q, p == q, q < p exactly one holds for any two of them, and
\* p < q and q < r give p < r, whatever their half planes and branches.
C17_TotalOrder ==
    (phRes.op = "compare" /\ \A i \in 1..3 : NonZero(phs[i]))
        => /\ \A i, j \in 1..3 :
                 ExactlyOne(phRes.lt[i][j], phRes.eq[i][j], phRes.lt[j][i])
           /\ \A i, j, k \in 1..3 :
                 (phRes.lt[i][j] /\ phRes.lt[j][k]) => phRes.lt[i][k]

C17_Witness ==
    /\ phRes.op = "compare"
    /\ \A i \in 1..3 : NonZero(phs[i])
    /\ is_in_upper_half_plane(phs[1])
    /\ ~is_in_upper_half_plane(phs[2])
    /\ phs[2][3] = phs[1][3]
    /\ phs[3][3] # phs[2][3]
    /\ phRes.lt[1][2] /\ phRes.lt[2][3] /\ phRes.lt[1][3]

(***************************************************************************)
(* stability/stability_condition.py: the charge, the collinearity test,    *)
(* the float phase and the antisymmetrised Euler pairing which the HN      *)
(* types are stated with.                                                  *)
(***************************************************************************)
RECURSIVE Dot(_, _, _)
\* sum(a * x for a, x in zip(weights, d))
Dot(weights, d, n) == IF n = 0 THEN 0 ELSE weights[n] * d[n] + Dot(weights, d, n - 1)

\* StabilityCondition.central_charge, as the pair (real, imag)
central_charge(sc, d) == <<Dot(sc.real, d, Len(d)), Dot(sc.imag, d, Len(d))>>

\* StabilityCondition.colinear
colinear(sc, d, e) ==
    central_charge(sc, d)[1] * central_charge(sc, e)[2]
        = central_charge(sc, e)[1] * central_charge(sc, d)[2]

\* where cmath.phase(z) lies in (-pi, pi]: below the real axis, 0 (the
\* number 0 included), above the real axis, pi
Sector(z) ==
    IF z[2] < 0 THEN 0
    ELSE IF z[2] > 0 THEN 2
    ELSE IF z[1] >= 0 THEN 1 ELSE 3

\* StabilityCondition.phase(d) < StabilityCondition.phase(e)
phase_lt(sc, d, e) ==
    LET z == central_charge(sc, d)
        w == central_charge(sc, e)
    IN  \/ Sector(z) < Sector(w)
        \/ /\ Sector(z) = Sector(w)
           /\ Sector(z) \in {0, 2}
           /\ z[1] * w[2] - z[2] * w[1] > 0

\* the arrows of the quiver under the stability condition: one arrow from
\* the first vertex to the last
HnArrows(n) == {<< <<0, n - 1>>, 1 >>}

\* Quiver.chi, the ScalarProduct of the Euler matrix
chi(sc, d, e) == SumItems(EulerMatrix(sc.num_vertices, HnArrows(sc.num_vertices)), d, e)

\* StabilityCondition.__call__
StabCall(sc, d, e) == chi(sc, d, e) - chi(sc, e, d)

\* hn_partitions(d) was called for a nonzero d of the right length, without
\* a bound, and was asked for its first element
HnAdvanced ==
    /\ hn.fn = "hn_partitions"
    /\ hn.pc \in {"yielded", "raised"}
    /\ hn.k = None
    /\ Len(hn.d) = stab.num_vertices
    /\ ~is_zero(hn.d)

StrictlySmaller(e, d) == (\A i \in 1..Len(d) : e[i] <= d[i]) /\ e # d

\* C19: for every nonzero d hn_partitions(d) emits the type {d} exactly
\* once, first and with exponent 0, and in every other emitted type each
\* piece is strictly smaller than d.
C19_TrivialTypeOnce ==
    HnAdvanced
        => /\ hn.exc = "none"
           /\ Len(hn.out) >= 1
           /\ hn.out[1] = [part |-> {hn.d}, exponent |-> 0]
           /\ \A i \in 2..Len(hn.out) :
                \A e \in hn.out[i].part : StrictlySmaller(e, hn.d)

RECURSIVE ExtensionSum(_, _)
\* over the pairs (e, p) of pieces with e added to a type that held p:
\* StabCall(p, e) if phase(e) < phase(p), and StabCall(e, p) otherwise
ExtensionSum(sc, pairs) ==
    IF pairs = {} THEN 0
    ELSE LET x == CHOOSE y \in pairs : TRUE
             term == IF phase_lt(sc, x[1], x[2])
                     THEN StabCall(sc, x[2], x[1])
                     ELSE StabCall(sc, x[1], x[2])
         IN  term + ExtensionSum(sc, pairs \ {x})

ChargeWeights == -1..1

\* CentralCharge.__init__ with both lists given
CentralCharges ==
    UNION {[rank : {n}, real : [1..n -> ChargeWeights], imag : [1..n -> ChargeWeights]] :
             n \in Ranks}

\* CentralCharge.__call__
ChargeCall(c, d) == <<Dot(c.real, d, Len(d)), Dot(c.imag, d, Len(d))>>

\* CentralCharge.phase: both branches call Phase(real=..., imag=...,
\* branch=...), keywords which Phase.__init__(value) does not take
ChargePhase(c, d) ==
    IF ChargeCall(c, d)[2] > 0 \/ (ChargeCall(c, d)[2] = 0 /\ ChargeCall(c, d)[1] < 0)
    THEN Raised("TypeError")
    ELSE Raised("TypeError")

\* is_contained of MotiveOfSemistables.cone_at
is_contained(k, c, phi, d) ==
    LET m == ContainsCall(k, d)
    IN  IF m.exc # "none" THEN Raised(m.exc)
        ELSE Outcome("none", m.val /\ PhaseCovers(phi, ChargeCall(c, d)))

\* MotiveOfSemistables.cone_at: on an odd branch phi[1] subscripts a Phase;
\* on an even branch Cone(rank=..., is_contained=..., pred_of=...)
\* instantiates the abstract class Cone
cone_at(phi) ==
    IF phi[3] % 2 # 0 THEN "TypeError" ELSE "TypeError"

InitCharge ==
    /\ IdleDT
    /\ IdleWalk
    /\ IdleCone
    /\ IdlePhase
    /\ IdlePairing
    /\ IdleCache
    /\ IdleResolve
    /\ IdlePleth
    /\ IdleHN
    /\ charge \in CentralCharges
    /\ chRes = [op |-> "none"]

\* StabilityCondition.colinear(d, e) and the Phases of d and e
ChargeColinear ==
    /\ chRes.op = "none"
    /\ \E d, e \in Box(charge.rank) :
          chRes' = [op |-> "colinear", d |-> d, e |-> e,
                    val |-> colinear(charge, d, e),
                    phase |-> <<ChargePhase(charge, d), ChargePhase(charge, e)>>]
    /\ UNCHANGED charge
    /\ UNCHANGED notCharge

\* MotiveOfSemistables.cone_at(phi) over a cone of all objects
ChargeConeAt ==
    /\ chRes.op = "none"
    /\ \E phi \in Phases, k \in HNCones(charge.rank) :
          chRes' = [op |-> "cone_at", phi |-> phi, cone |-> k, exc |-> cone_at(phi)]
    /\ UNCHANGED charge
    /\ UNCHANGED notCharge

NextCharge == ChargeColinear \/ ChargeConeAt

SpecCharge == InitCharge /\ [][NextCharge]_vars

\* C21: colinear(d, e) is true exactly when the central charge gives d and
\* e the same Phase.
C21_ColinearIsPhaseEquality ==
    chRes.op = "colinear"
        => (chRes.val <=> /\ chRes.phase[1].exc = "none"
                          /\ chRes.phase[2].exc = "none"
                          /\ PhaseEq(chRes.phase[1].val, chRes.phase[2].val))

\* C28: for every Phase phi the cone cone_at(phi) is built, contains the
\* zero vector, and contains d + e whenever it contains d and e.
C28_ConeAtIsCone ==
    chRes.op = "cone_at"
        => LET In(d) == is_contained(chRes.cone, charge, chRes.phi, d)
               n == charge.rank
           IN  /\ chRes.exc = "none"
               /\ In(Zero(n)).exc = "none" /\ In(Zero(n)).val
               /\ \A d, e \in Box(n) :
                     (In(d).exc = "none" /\ In(d).val /\ In(e).exc = "none" /\ In(e).val)
                         => (In(VAdd(d, e)).exc = "none" /\ In(VAdd(d, e)).val)

\* C26: negation gives the additive inverse of a Phase: phi + (-phi) and
\* phi - phi both equal Phase(0), for every representative and branch.
C26_NegIsAdditiveInverse ==
    phRes.op = "neg"
        => /\ PhaseEq(phRes.sum, PhaseNew(0))
           /\ PhaseEq(phRes.diff, PhaseNew(0))

\* the summands of d in the cone k: the e in k with d - e in k
SummandsOf(k, d) == {e \in Box(k.rank) : Contains(k, e) /\ Contains(k, VSub(d, e))}

\* C27: for every cone, a Subcone included, and every member d, summands(d)
\* yields a vector e if and only if e is in the cone and d - e is in the
\* cone as well.
C27_SummandsHaveComplement ==
    (op = "summands" /\ Contains(cone, dv))
        => /\ Range(out) \subseteq SummandsOf(cone, dv)
           /\ pc = "exhausted" => Range(out) = SummandsOf(cone, dv)

(***************************************************************************)
(* The enumerators of a cone taken one step at a time.  summands(d) runs   *)
(* the generator _summands(d, below=d); partitions(d) runs the generator   *)
(* _partitions(d, below=d), whose for-loop draws from _summands and whose  *)
(* while-loop calls _partitions again.  A frame is a live generator: e is  *)
(* the place of its _summands descent, q and r the multiplicity and the    *)
(* remainder of its while-loop; walk.count counts the elements yielded to   *)
(* the caller and walk.depth is the deepest nesting of generators reached. *)
(***************************************************************************)
RemainderMut(d, e) == d

\* r = d - e at the head of the while-loop of Cone._partitions
Remainder(d, e) == VSub(d, e)

WalkFrame(fn, d, below) ==
    [fn |-> fn, d |-> d, below |-> below, e |-> below, q |-> 0, r |-> d, at |-> "for"]

WalkTop == frames[Len(frames)]

SetTop(f) == [frames EXCEPT ![Len(frames)] = f]

\* the generator on top ends; the while-loop that called it goes on with
\* q += 1 and r -= e
WalkReturn ==
    LET rest == SubSeq(frames, 1, Len(frames) - 1)
    IN  IF rest = <<>>
        THEN rest
        ELSE [rest EXCEPT ![Len(rest)] =
                 [@ EXCEPT !.q = @ + 1, !.r = VSub(@, rest[Len(rest)].e)]]

InitWalk ==
    /\ IdleDT
    /\ IdleCone
    /\ IdlePhase
    /\ IdlePairing
    /\ IdleCache
    /\ IdleResolve
    /\ IdlePleth
    /\ IdleHN
    /\ IdleCharge
    /\ walk \in UNION {{[fn |-> "none", cone |-> k, d |-> d, status |-> "idle", depth |-> 0,
                             count |-> 0] :
                            d \in {x \in Box(k.rank) : Contains(k, x)}} : k \in Cones}
    /\ frames = <<>>

\* Cone.summands(d): chain([d], self._summands(d, below=d))
WalkSummands ==
    /\ walk.status = "idle"
    /\ walk' = [walk EXCEPT !.fn = "summands", !.status = "running", !.depth = 1,
                             !.count = 1]
    /\ frames' = <<WalkFrame("_summands", walk.d, walk.d)>>
    /\ UNCHANGED notWalk

\* Cone.partitions(d): chain([{d: 1}], self._partitions(d, below=d))
WalkPartitions ==
    /\ walk.status = "idle"
    /\ walk' = [walk EXCEPT !.fn = "partitions", !.status = "running", !.depth = 1,
                             !.count = 1]
    /\ frames' = <<WalkFrame("_partitions", walk.d, walk.d)>>
    /\ UNCHANGED notWalk

\* one pass of the loop of StandardCone._summands: e = _pred_of(e, d).  A
\* Subcone drops the e that fails its condition; _partitions skips the
\* zero vector and begins its while-loop with any other e.
SummandStep ==
    /\ frames # <<>>
    /\ WalkTop.at = "for"
    /\ ~is_zero(WalkTop.e)
    /\ LET f == WalkTop
           p == PredOf(f.e, f.d)
       IN  frames' =
             IF walk.cone.kind = "Subcone" /\ ~Condition(walk.cone.cond, p)
             THEN SetTop([f EXCEPT !.e = p])
             ELSE IF f.fn = "_summands" \/ is_zero(p)
             THEN SetTop([f EXCEPT !.e = p])
             ELSE SetTop([f EXCEPT !.e = p, !.q = 1, !.r = Remainder(f.d, p),
                                   !.at = "while"])
    /\ LET p == PredOf(WalkTop.e, WalkTop.d)
           dropped == walk.cone.kind = "Subcone" /\ ~Condition(walk.cone.cond, p)
       IN  walk' = IF WalkTop.fn = "_summands" /\ ~dropped
                   THEN [walk EXCEPT !.count = @ + 1]
                   ELSE walk
    /\ UNCHANGED notWalk

\* _summands has yielded the zero vector (or below was zero): it returns,
\* the for-loop ends and the generator on top is exhausted
FrameReturn ==
    /\ frames # <<>>
    /\ WalkTop.at = "for"
    /\ is_zero(WalkTop.e)
    /\ frames' = WalkReturn
    /\ walk' = IF frames' = <<>> THEN [walk EXCEPT !.status = "done"] ELSE walk
    /\ UNCHANGED notWalk

\* one test of `while r in self`: leave the loop, yield {e: q}, or call
\* _partitions(r, below=e)
WhileStep ==
    /\ frames # <<>>
    /\ WalkTop.at = "while"
    /\ LET f == WalkTop
       IN  frames' =
             IF ~Contains(walk.cone, f.r)
             THEN SetTop([f EXCEPT !.at = "for"])
             ELSE IF is_zero(f.r)
             THEN SetTop([f EXCEPT !.q = @ + 1, !.r = VSub(@, f.e)])
             ELSE Append(frames, WalkFrame("_partitions", f.r, InnerBelow(f.e, f.below)))
    /\ walk' = [walk EXCEPT !.depth = IF Len(frames') > @ THEN Len(frames') ELSE @,
                             !.count = IF Contains(walk.cone, WalkTop.r) /\ is_zero(WalkTop.r)
                                       THEN @ + 1 ELSE @]
    /\ UNCHANGED notWalk

NextWalk ==
    \/ WalkSummands
    \/ WalkPartitions
    \/ SummandStep
    \/ FrameReturn
    \/ WhileStep

SpecWalk == InitWalk /\ [][NextWalk]_vars

\* the interpreter runs a started enumeration on for as long as it has a step
SpecWalkFair == SpecWalk /\ WF_vars(NextWalk)

\* every live recursive call of _partitions has a remainder strictly smaller
\* than the vector of its caller and a strictly smaller bound
StrictDescent ==
    \A i \in 2..Len(frames) :
        /\ StrictlySmaller(frames[i].d, frames[i - 1].d)
        /\ VLt(frames[i].below, frames[i - 1].below)

\* a step of a _summands descent goes strictly down in the lexicographic order
SummandDescends ==
    \A i \in 1..Len(frames) :
        (Len(frames') = Len(frames) /\ frames'[i].e # frames[i].e)
            => VLt(frames'[i].e, frames[i].e)

\* C29: for every member d of a StandardCone or a Subcone summands(d) and
\* partitions(d) come to an end, with no cap on the iterations: every
\* recursive call of _partitions has a strictly smaller remainder and a
\* strictly smaller bound, and every _summands descent goes strictly down
\* until it reaches the zero vector.
C29_EnumerationsTerminate ==
    /\ <>(walk.status = "done")
    /\ []StrictDescent
    /\ [][SummandDescends]_vars

C29_Witness ==
    /\ walk.status = "done"
    /\ walk.fn = "partitions"
    /\ walk.cone.kind = "Subcone"
    /\ walk.depth >= 2
    /\ walk.count >= 2

\* C30: the memo cache of a GradedMotive, a SlicedMotive or a Slicing is
\* append-only: no request (at, of or call) removes a key that was stored
\* or replaces the value stored for it.
C30_CacheAppendOnly ==
    [][\A o \in {"GradedMotive", "SlicedMotive", "Slicing"} :
          \A x \in caches[o] : x \in caches'[o]]_vars

\* the cap on the passes of the while-loop of partitions and hn_partitions
IterationCap == 10000

Mono(c, p) == IF c = 0 THEN [coef |-> 0, rpow |-> 0] ELSE [coef |-> c, rpow |-> p]

Fails(e) == [exc |-> e, val |-> Mono(0, 0)]

\* the MotivicSeries handed to AbelianCategory.__init__ as motive_of_objects
MotiveOfObjects(o) == [cls |-> "MotivicSeries", cone |-> o.cone, coeff |-> o.coeff]

\* GradedMotive.__call__ of motive_of_objects
MotiveCall(o, d) ==
    IF CacheHas(o.mcache, VecKey(d))
    THEN [o |-> o, out |-> Outcome("none", CacheGet(o.mcache, VecKey(d)))]
    ELSE LET r == SeriesAt(MotiveOfObjects(o), d)
         IN  IF r.exc # "none"
             THEN [o |-> o, out |-> Fails(r.exc)]
             ELSE [o |-> [o EXCEPT !.mcache = CacheSet(@, VecKey(d), Mono(r.val, 0))],
                   out |-> Outcome("none", Mono(r.val, 0))]

\* the coefficient function of the normalized series:
\* lambda d: R ** self.euler_pairing(d, d) * self.motive_of_objects(d)
NormalizedAtDv(o, d) ==
    LET pairing == PairingCall(o.euler_pairing, d, d)
        m == MotiveCall(o, d)
    IN  IF pairing.exc # "none" THEN [o |-> o, out |-> Fails(pairing.exc)]
        ELSE IF m.out.exc # "none" THEN m
        ELSE [o |-> m.o,
              out |-> Outcome("none", Mono(m.out.val.coef, pairing.val + m.out.val.rpow))]

\* MotivicSeries.at of the normalized series, which is built over the cone
\* of motive_of_objects
NormalizedAt(o, d) ==
    LET c == ContainsCall(o.cone, d)
    IN  IF c.exc # "none" THEN [o |-> o, out |-> Fails(c.exc)]
        ELSE IF ~c.val THEN [o |-> o, out |-> Outcome("none", Mono(0, 0))]
        ELSE NormalizedAtDv(o, d)

\* AbelianCategory.normalized_motive_of_objects, which builds the series on
\* the first access, called with d
NormalizedCall(o, d) ==
    LET b == [o EXCEPT !.normalized = TRUE]
    IN  IF CacheHas(b.ncache, VecKey(d))
        THEN [o |-> b, out |-> Outcome("none", CacheGet(b.ncache, VecKey(d)))]
        ELSE LET r == NormalizedAt(b, d)
             IN  IF r.out.exc # "none"
                 THEN r
                 ELSE [o |-> [r.o EXCEPT !.ncache = CacheSet(@, VecKey(d), r.out.val)],
                       out |-> r.out]

\* the factor DTInvariants._of puts before the Log
LogFactor == "(L - 1) / R"

SeriesOf(cls, factor, phi) == [cls |-> cls, factor |-> factor, phi |-> phi]

\* the normalized motive of the category slicing(phi): a series over the
\* cone of the motive of that category
NormalizedOf(o, phi) == [cls |-> "MotivicSeries", cone |-> o.cone, coeff |-> o.coeff]

\* the value of a call that is made once: the one element of S
Only(S) == CHOOSE x \in S : TRUE

\* DTInvariants._of: the entry of _log_cache, or a new Log which is stored
\* bare while the series returned carries the factor
DtOfImpl(o, phi) ==
    IF CacheHas(o.log_cache, PhaseKey(phi))
    THEN [o |-> o, out |-> Outcome("none", CacheGet(o.log_cache, PhaseKey(phi)))]
    ELSE Only({LET b == [o EXCEPT !.st = s.st]
                   n == LogNew(NormalizedOf(o, phi))
                   log == SeriesOf("Log", "1", phi)
               IN  IF n # "built"
                   THEN [o |-> b, out |-> Fails(n)]
                   ELSE [o |-> [b EXCEPT !.log_cache = CacheSet(@, PhaseKey(phi), log)],
                         out |-> Outcome("none", SeriesOf("MotivicSeries", LogFactor, phi))] :
               s \in {SlicingCall(o.st, phi)}})

\* SlicedMotive.of, inherited: _of, and the result stored whatever is cached
DtOf(o, phi) ==
    Only({IF r.out.exc # "none"
          THEN r
          ELSE [o |-> [r.o EXCEPT !.cache = CacheSet(@, PhaseKey(phi), r.out.val)],
                out |-> r.out] :
          r \in {DtOfImpl(o, phi)}})

\* SlicedMotive.__call__ with a Phase
DtCallPhase(o, phi) ==
    IF CacheHas(o.cache, PhaseKey(phi))
    THEN [o |-> o, out |-> Outcome("none", CacheGet(o.cache, PhaseKey(phi)))]
    ELSE Only({IF r.out.exc # "none"
               THEN r
               ELSE LET c == CacheSet(r.o.cache, PhaseKey(phi), r.out.val)
                    IN  [o |-> [r.o EXCEPT !.cache = c],
                         out |-> Outcome("none", CacheGet(c, PhaseKey(phi)))] :
               r \in {DtOf(o, phi)}})

\* series(d) for the series that answers for a phase: MotivicSeries.at, then
\* Log._at, by itself or under the factor
DtSeriesCall(o, series, d) ==
    LET r == TransformAt([NormalizedOf(o, series.phi) EXCEPT !.cls = "Log"], d)
    IN  IF r.exc # "none" THEN Fails(r.exc) ELSE Outcome("none", Mono(r.val, 0))

\* SlicedMotive.at: GradedMotive.at ends in _at, which raises
\* NotImplementedError; the handler asks self(phase_of(d)) for the series
DtSlicedAt(o, d) ==
    Only({IF s.out.exc # "none"
          THEN s
          ELSE LET v == DtSeriesCall(s.o, s.out.val, d)
               IN  IF v.exc # "none"
                   THEN [o |-> s.o, out |-> v]
                   ELSE [o |-> [s.o EXCEPT !.cache = CacheSet(@, VecKey(d), v.val)],
                         out |-> v] :
          s \in {DtCallPhase(o, o.phase_of[d])}})

\* DTInvariants.at: R ** (-vdim(d)) * expand(factor(R ** vdim(d) * super().at(d)))
DtAt(o, d) ==
    LET vdim == PairingCall(o.euler_pairing, d, d)
    IN  IF vdim.exc # "none" THEN [o |-> o, out |-> Fails(vdim.exc)] ELSE DtSlicedAt(o, d)

\* SlicedMotive.__call__ with a DimensionVector
DtCallVector(o, d) ==
    IF CacheHas(o.cache, VecKey(d))
    THEN [o |-> o, out |-> Outcome("none", CacheGet(o.cache, VecKey(d)))]
    ELSE Only({IF r.out.exc # "none"
               THEN r
               ELSE LET c == CacheSet(r.o.cache, VecKey(d), r.out.val)
                    IN  [o |-> [r.o EXCEPT !.cache = c],
                         out |-> Outcome("none", CacheGet(c, VecKey(d)))] :
               r \in {DtAt(o, d)}})

\* the pairings x * d[0] * e[0] of the lattice of rank 1
EulerPairings ==
    {PairingNew(SetMin(Ranks), TRUE, {<< <<0, 0>>, x >>}) : x \in (-1)..1}

\* the Phases asked of the DTInvariants object: two that are equal and one
\* that differs
DtPhases == {PhaseOf(z, 0) : z \in {<<1, 1>>, <<2, 2>>, <<-1, 0>>}}

\* phase_of, as handed over by slicing.motive_of_objects: a constant phase
DtPhaseOfs == {f \in PhaseOfs : \A d \in CacheVectors : f[d] \in DtPhases}

InitDT ==
    /\ IdleWalk
    /\ IdleCharge
    /\ IdleCone
    /\ IdlePhase
    /\ IdlePairing
    /\ IdleCache
    /\ IdleResolve
    /\ IdlePleth
    /\ IdleHN
    /\ dtObj \in [cone : ResolveCones, coeff : PlethCoeffs, euler_pairing : EulerPairings,
                  phase_of : DtPhaseOfs, normalized : {FALSE}, ncache : {{}}, mcache : {{}},
                  st : {[GradedMotive |-> {}, SlicedMotive |-> {}, Slicing |-> {},
                         invoked |-> [c \in CoefficientCalls |-> 0], nextId |-> 0]},
                  log_cache : {{}}, cache : {{}}, asked : {0}]
    /\ dtOut = [req |-> "none"]

DtRequest(req, key, r) ==
    /\ dtObj.asked < MaxRequests
    /\ dtObj' = [r.o EXCEPT !.asked = @ + 1]
    /\ dtOut' = [req |-> req, key |-> key, exc |-> r.out.exc, val |-> r.out.val]
    /\ UNCHANGED notDT

ReqNormalized ==
    \E d \in CacheVectors :
        \E r \in {NormalizedCall(dtObj, d)} : DtRequest("normalized", VecKey(d), r)

ReqDtOf ==
    \E phi \in DtPhases :
        \E r \in {DtOf(dtObj, phi)} : DtRequest("of", PhaseKey(phi), r)

ReqDtCall ==
    \/ \E phi \in DtPhases :
          \E r \in {DtCallPhase(dtObj, phi)} : DtRequest("__call__", PhaseKey(phi), r)
    \/ \E d \in CacheVectors :
          \E r \in {DtCallVector(dtObj, d)} : DtRequest("__call__", VecKey(d), r)

ReqDtAt ==
    \E d \in CacheVectors :
        \E r \in {DtAt(dtObj, d)} : DtRequest("at", VecKey(d), r)

NextDT == ReqNormalized \/ ReqDtOf \/ ReqDtCall \/ ReqDtAt

SpecDT == InitDT /\ [][NextDT]_vars

\* C25: for every AbelianCategory and every d in its cone,
\* normalized_motive_of_objects(d) is motive_of_objects(d) divided by
\* R^(euler_pairing(d,d)): the power of R is shifted by minus
\* euler_pairing(d,d).
C25_NormalizedDividesByEuler ==
    (dtOut.req = "normalized" /\ InCone(dtObj.cone, dtOut.key.v))
        => /\ dtOut.exc = "none"
           /\ dtOut.val = Mono(dtObj.coeff[dtOut.key.v],
                               0 - SumItems(dtObj.euler_pairing.coeff_matrix,
                                            dtOut.key.v, dtOut.key.v))

====
